---- MODULE Spec2Model ----
(***************************************************************************)
(* SmarterBoard component classifier (src/src/ComponentClassifier.py):     *)
(* Preprocessing, FeatureExtraction and ComponentClassifier.predict.       *)
(*                                                                         *)
(* Representation.                                                         *)
(*   - An image (ndarray) is a record [width, height, dtype, pix]; pix     *)
(*     maps the coordinates <<x, y>> of its non-zero pixels to their       *)
(*     values, every other pixel of the width x height grid is 0.          *)
(*   - A float is a record [k, s, n, b, p]:                                *)
(*        k = "num" : the number n                                         *)
(*        k = "log" : s * log10(n / b^p), with s in {-1, 1}, n > 0         *)
(*        k = "nan", "inf" (s * infinity)                                  *)
(*     so that log10 is kept exact instead of being rounded.               *)
(*   - The magnitude maps hold tenths (floor(10 * sqrt(.))).               *)
(*   - The module is Python 2 code (print statements in                    *)
(*     src/preprocessing/straighten.py, skimage.filter): "/" between       *)
(*     integer arrays and an int is floor division.                        *)
(***************************************************************************)
EXTENDS Integers, Sequences, FiniteSets, TLC

(***************************************************************************)
(* Bounds of the model.                                                    *)
(***************************************************************************)
\* longest batch handed to predict
MaxImages == 2
\* most images handed to one call of mean_exposure_hist
MaxHistImages == 2

(***************************************************************************)
(* Helpers: sums, floats.                                                  *)
(***************************************************************************)
RECURSIVE SumOver(_, _)
\* the sum of f[p] over the finite set S
SumOver(f, S) ==
    IF S = {} THEN 0
    ELSE LET p == CHOOSE q \in S : TRUE
         IN  f[p] + SumOver(f, S \ {p})

RECURSIVE SumSeq(_)
\* the sum of the entries of a sequence of integers
SumSeq(s) == IF s = <<>> THEN 0 ELSE Head(s) + SumSeq(Tail(s))

Abs(v) == IF v < 0 THEN -v ELSE v

Sign(v) == IF v < 0 THEN -1 ELSE IF v > 0 THEN 1 ELSE 0

Num(v) == [k |-> "num", s |-> 0, n |-> v, b |-> 1, p |-> 0]

NaN == [k |-> "nan", s |-> 0, n |-> 0, b |-> 1, p |-> 0]

Inf(sg) == [k |-> "inf", s |-> sg, n |-> 0, b |-> 1, p |-> 0]

\* a float that is neither NaN nor an infinity
IsFinite(f) == f.k \in {"num", "log"}

(***************************************************************************)
(* Images.                                                                 *)
(***************************************************************************)
\* the image of the given shape and dtype whose non-zero pixels are px
MkImage(w, h, dt, px) ==
    [width |-> w, height |-> h, dtype |-> dt,
     pix |-> [q \in {r \in DOMAIN px : px[r] # 0} |-> px[q]]]

\* ink[q] = 1 on the given set of coordinates
Ink(S) == [q \in S |-> 1]

Px(img, x, y) == IF <<x, y>> \in DOMAIN img.pix THEN img.pix[<<x, y>>] ELSE 0

Size(img) == img.width * img.height

\* the number of pixels whose value is 0
Zeros(img) == Size(img) - Cardinality(DOMAIN img.pix)

\* the set of values the image takes
Values(img) ==
    {img.pix[q] : q \in DOMAIN img.pix} \cup (IF Zeros(img) > 0 THEN {0} ELSE {})

SetMin(S) == CHOOSE v \in S : \A u \in S : v <= u

SetMax(S) == CHOOSE v \in S : \A u \in S : v >= u

(***************************************************************************)
(* Library calls made by Preprocessing (cv2, skimage), by their contracts. *)
(***************************************************************************)
\* Python's int() of the rational n / d: truncation toward zero
Trunc(n, d) == IF n >= 0 THEN n \div d ELSE -((-n) \div d)

\* what a failing call yields instead of an image
ErrorImage == [width |-> 0, height |-> 0, dtype |-> "error", pix |-> Ink({})]

IsError(img) == img.dtype = "error"

\* the destination columns (rows) that sample source column (row) c, when a
\* line of sn pixels is resampled to dn pixels
Preimage(c, sn, dn) == {d \in 0..(dn - 1) : (d * sn) \div dn = c}

\* cv2.resize(img, (w, h), interpolation): an image of exactly w columns and h
\* rows of the dtype of img; it raises on an empty source or an empty target.
\* The content is resampled at the nearest source pixel (the cubic kernel's
\* weights are not modelled).
cv2_resize(img, w, h) ==
    IF IsError(img) \/ Size(img) = 0 \/ w <= 0 \/ h <= 0 THEN ErrorImage
    ELSE LET dst == UNION {Preimage(q[1], img.width, w) \X Preimage(q[2], img.height, h) :
                           q \in DOMAIN img.pix}
         IN  [width |-> w, height |-> h, dtype |-> img.dtype,
              pix |-> [d \in dst |-> img.pix[<<(d[1] * img.width) \div w,
                                               (d[2] * img.height) \div h>>]]]

\* scipy.ndimage's mode = 'reflect' at the border of a line of n pixels
Reflect(i, n) == IF i < 0 THEN -i - 1 ELSE IF i >= n THEN 2 * n - 1 - i ELSE i

Offsets == (-1..1) \X (-1..1)

\* The complex Gabor kernel at frequency 1/2 and orientation sg * pi / 4,
\* quantised to 3 x 3 integer taps: the real part is even, with its ridge along
\* the orientation; the imaginary part is odd.
GaborReal(sg, d) ==
    IF d = <<0, 0>> THEN 2
    ELSE IF d[1] = -sg * d[2] THEN 1
    ELSE IF d[1] = sg * d[2] THEN 0
    ELSE -1

GaborImag(sg, d) ==
    IF d[1] = -sg * d[2] THEN 0
    ELSE IF d[1] = sg * d[2] THEN -d[1]
    ELSE d[1] + sg * d[2]

\* the pixels within one step of a non-zero pixel
Support(img) ==
    {r \in UNION {{<<q[1] + d[1], q[2] + d[2]>> : d \in Offsets} : q \in DOMAIN img.pix} :
        /\ r[1] \in 0..(img.width - 1)
        /\ r[2] \in 0..(img.height - 1)}

\* one tap of the real ("re") or imaginary ("im") part of the kernel
Tap(part, sg, d) == IF part = "re" THEN GaborReal(sg, d) ELSE GaborImag(sg, d)

\* scipy.ndimage.convolve(img, kernel, mode = 'reflect'); the output has the
\* shape and the dtype of the input
Convolve(img, part, sg) ==
    LET at(r) == SumOver([d \in Offsets |->
                     Tap(part, sg, d) * Px(img, Reflect(r[1] + d[1], img.width),
                                                Reflect(r[2] + d[2], img.height))], Offsets)
    IN  MkImage(img.width, img.height, img.dtype, [r \in Support(img) |-> at(r)])

\* skimage.filter.gabor_filter(img, frequency, theta, bandwidth): the real and
\* the imaginary response, theta = <<sg, denom>> standing for sg * pi / denom
gabor_filter(img, frequency, theta, bandwidth) ==
    <<Convolve(img, "re", theta[1]), Convolve(img, "im", theta[1])>>

\* floor(sqrt(n))
Isqrt(n) == CHOOSE r \in 0..n : r * r <= n /\ (r + 1) * (r + 1) > n

(***************************************************************************)
(* class Preprocessing                                                     *)
(***************************************************************************)
\* scale_image scaling the image's own size instead of org_dim
scale_image_own_size(img, scaler, org_dim) ==
    cv2_resize(img, Trunc(scaler[1] * img.width, scaler[2]),
                    Trunc(scaler[1] * img.height, scaler[2]))

\* scale_image(img, scaler, org_dim); scaler is the rational <<num, den>>,
\* org_dim is <<width, height>>
scale_image(img, scaler, org_dim) ==
    LET width == org_dim[1]
        height == org_dim[2]
        output_width == Trunc(scaler[1] * width, scaler[2])
        output_height == Trunc(scaler[1] * height, scaler[2])
    IN  cv2_resize(img, output_width, output_height)

\* standardize_shape(img)
standardize_shape(img) == scale_image(img, <<1, 4>>, <<256, 153>>)

\* angle_pass_filter(img, frequency, theta, bandwidth):
\* mag = np.sqrt(np.square(real) + np.square(imag)), a float map (in tenths)
angle_pass_filter(img, frequency, theta, bandwidth) ==
    LET resp == gabor_filter(img, frequency, theta, bandwidth)
        real == resp[1]
        imag == resp[2]
        S == DOMAIN real.pix \cup DOMAIN imag.pix
    IN  MkImage(img.width, img.height, "float",
                [r \in S |-> Isqrt(100 * (Px(real, r[1], r[2]) * Px(real, r[1], r[2])
                                          + Px(imag, r[1], r[2]) * Px(imag, r[1], r[2])))])

\* frontslash_filter(img, denom, freq, bandwidth): theta = np.pi * (1.0 / denom)
frontslash_filter(img, denom, freq, bandwidth) ==
    angle_pass_filter(img, freq, <<1, denom>>, bandwidth)

\* backslash_filter(img, denom, freq, bandwidth): theta = np.pi * (-1.0 / denom)
backslash_filter(img, denom, freq, bandwidth) ==
    angle_pass_filter(img, freq, <<-1, denom>>, bandwidth)

(***************************************************************************)
(* Library calls made by FeatureExtraction.                                *)
(***************************************************************************)
\* the bin of value v among nbins equal bins over [lo, hi], the last one closed
\* (np.histogram; a flat image gets the range [lo - 0.5, hi + 0.5])
BinOf(v, lo, hi, nbins) ==
    IF lo = hi THEN nbins \div 2
    ELSE IF v = hi THEN nbins - 1
    ELSE ((v - lo) * nbins) \div (hi - lo)

\* skimage.exposure.histogram(img, nbins) of a float image:
\* np.histogram(img.flat, nbins), the nbins pixel counts
exposure_histogram(img, nbins) ==
    LET lo == SetMin(Values(img))
        hi == SetMax(Values(img))
    IN  [j \in 1..nbins |->
            Cardinality({q \in DOMAIN img.pix : BinOf(img.pix[q], lo, hi, nbins) = j - 1})
            + (IF Zeros(img) > 0 /\ BinOf(0, lo, hi, nbins) = j - 1 THEN Zeros(img) ELSE 0)]

RECURSIVE Pow(_, _)
Pow(b, e) == IF e = 0 THEN 1 ELSE b * Pow(b, e - 1)

\* cv2.moments(img): the spatial moment m_pq = sum of x^p * y^q * I(x, y)
SpatialMoment(img, p, q) ==
    SumOver([r \in DOMAIN img.pix |-> Pow(r[1], p) * Pow(r[2], q) * img.pix[r]],
            DOMAIN img.pix)

\* the central moment mu_pq, times m00^(p+q):
\* sum of (m00 * x - m10)^p * (m00 * y - m01)^q * I(x, y)
CentralMoment(img, p, q) ==
    LET m00 == SpatialMoment(img, 0, 0)
        m10 == SpatialMoment(img, 1, 0)
        m01 == SpatialMoment(img, 0, 1)
    IN  SumOver([r \in DOMAIN img.pix |->
                    Pow(m00 * r[1] - m10, p) * Pow(m00 * r[2] - m01, q) * img.pix[r]],
                DOMAIN img.pix)

\* cv2.HuMoments(cv2.moments(img)): the seven Hu invariants of the normalised
\* central moments nu_pq = mu_pq / m00^(1 + (p+q)/2), each an exact rational
\* <<numerator, base, power>> = numerator / base^power.  With m00 = 0 cv2 sets
\* every central and normalised moment, hence every invariant, to 0.
HuMoments(img) ==
    LET m00 == SpatialMoment(img, 0, 0)
        n20 == CentralMoment(img, 2, 0)
        n02 == CentralMoment(img, 0, 2)
        n11 == CentralMoment(img, 1, 1)
        n30 == CentralMoment(img, 3, 0)
        n03 == CentralMoment(img, 0, 3)
        n21 == CentralMoment(img, 2, 1)
        n12 == CentralMoment(img, 1, 2)
        a == n30 + n12
        b == n21 + n03
        c == n30 - 3 * n12
        d == 3 * n21 - n03
    IN  IF m00 = 0 THEN [i \in 1..7 |-> <<0, 1, 0>>]
        ELSE << <<n20 + n02, m00, 4>>,
                <<(n20 - n02) * (n20 - n02) + 4 * n11 * n11, m00, 8>>,
                <<c * c + d * d, m00, 11>>,
                <<a * a + b * b, m00, 11>>,
                <<c * a * (a * a - 3 * b * b) + d * b * (3 * a * a - b * b), m00, 22>>,
                <<(n20 - n02) * (a * a - b * b) + 4 * n11 * a * b, m00, 15>>,
                <<d * a * (a * a - 3 * b * b) - c * b * (3 * a * a - b * b), m00, 22>> >>

\* np.sign of a rational
np_sign(v) == Sign(v[1])

\* np.log10(np.abs(v)): minus infinity at 0
np_log10_abs(v) ==
    IF v[1] = 0 THEN Inf(-1)
    ELSE [k |-> "log", s |-> 1, n |-> Abs(v[1]), b |-> v[2], p |-> v[3]]

\* the IEEE product of the integer sg in {-1, 0, 1} and the float f
np_mul(sg, f) ==
    CASE f.k = "nan" -> NaN
      [] f.k = "inf" -> IF sg = 0 THEN NaN ELSE Inf(sg * f.s)
      [] f.k = "log" -> IF sg = 0 THEN Num(0) ELSE [f EXCEPT !.s = sg * f.s]
      [] OTHER -> Num(sg * f.n)

(***************************************************************************)
(* class FeatureExtraction                                                 *)
(***************************************************************************)
denom == 4

freq == <<1, 2>>

bw == <<4, 5>>

\* mean_exposure_hist(nbins, *images): np.sum(hists, axis = 0) / len(images),
\* an integer array divided by an int
mean_exposure_hist(nbins, images) ==
    LET hists == [i \in 1..Len(images) |-> exposure_histogram(images[i], nbins)]
    IN  [j \in 1..nbins |->
            SumSeq([i \in 1..Len(images) |-> hists[i][j]]) \div Len(images)]

\* mean_exposure_hist_from_gabor leaving nbins out of the histogram call
\* (skimage's default is 256 bins)
mean_exposure_hist_from_gabor_default_bins(img, nbins) ==
    mean_exposure_hist(256, <<frontslash_filter(img, denom, freq, bw),
                              backslash_filter(img, denom, freq, bw)>>)

\* mean_exposure_hist_from_gabor(img, nbins)
mean_exposure_hist_from_gabor(img, nbins) ==
    LET frontslash == frontslash_filter(img, denom, freq, bw)
        backslash == backslash_filter(img, denom, freq, bw)
    IN  mean_exposure_hist(nbins, <<frontslash, backslash>>)

\* moments_hu(img): log_trans = -np.sign(raw) * np.log10(np.abs(raw)), flattened
moments_hu(img) ==
    LET raw == HuMoments(img)
    IN  [i \in 1..Len(raw) |-> np_mul(-np_sign(raw[i]), np_log10_abs(raw[i]))]

\* np.hstack with its two parts in the other order
np_hstack_swapped(moments, gabor_hist) ==
    [j \in 1..Len(gabor_hist) |-> Num(gabor_hist[j])] \o moments

\* np.hstack((moments, gabor_hist)): one float array
np_hstack(moments, gabor_hist) ==
    moments \o [j \in 1..Len(gabor_hist) |-> Num(gabor_hist[j])]

\* moments_nbins(image, nbins)
moments_nbins(image, nbins) ==
    LET moments == moments_hu(image)
        gabor_hist == mean_exposure_hist_from_gabor(image, nbins)
    IN  np_hstack(moments, gabor_hist)

(***************************************************************************)
(* The collaborators of ComponentClassifier.predict.                       *)
(*   utils.Utils is not among the sources: vStackMatrices and              *)
(*   map_label_to_str follow the specification (vertical stack of rows;    *)
(*   one-to-one lookup from class id to name).                             *)
(*   scaler and clf are the caller's capabilities: transform maps a matrix *)
(*   row by row, predict gives one class id per row, and either may raise. *)
(***************************************************************************)
\* X = None
None == [none |-> TRUE, rows |-> <<>>]

Matrix(rows) == [none |-> FALSE, rows |-> rows]

\* Utils.vStackMatrices(X, row): row becomes the last row of X
vStackMatrices(X, row) == Matrix(Append(X.rows, row))

LabelNames == <<"class_0", "class_1", "class_2">>

\* Utils.map_label_to_str(label)
map_label_to_str(label) == LabelNames[label + 1]

\* scaler.transform on one row: every entry rescaled by the fitted scaler
ScaleRow(scaler, row) == [j \in 1..Len(row) |-> [by |-> scaler, x |-> row[j]]]

\* scaler.transform(X) when it does not raise
scaler_transform(scaler, X) ==
    Matrix([i \in 1..Len(X.rows) |-> ScaleRow(scaler, X.rows[i])])

\* clf.predict on one scaled row: clf decides on the entry it was fitted on
ClassOf(clf, row) ==
    LET f == row[clf].x
    IN  IF f.k = "num" THEN f.n % Len(LabelNames)
        ELSE IF f.k = "log" THEN (f.n + f.p) % Len(LabelNames)
        ELSE 0

\* clf.predict(X) when it does not raise
clf_predict(clf, X) == [i \in 1..Len(X.rows) |-> ClassOf(clf, X.rows[i])]

(***************************************************************************)
(* Inputs.                                                                 *)
(***************************************************************************)
\* a boolean image of the given shape, True on the set S
BoolImage(w, h, S) ==
    [width |-> w, height |-> h, dtype |-> "bool", pix |-> [q \in S |-> TRUE]]

\* np.array(boolean, dtype = 'int16'): True becomes 1, False 0
np_array_int16(image) ==
    [image EXCEPT !.dtype = "int16",
                  !.pix = [q \in DOMAIN image.pix |->
                              IF image.dtype = "bool" THEN 1 ELSE image.pix[q]]]

Blank == BoolImage(256, 153, {})

Dot == BoolImage(256, 153, {<<0, 0>>})

Slash == BoolImage(256, 153, {<<4, 0>>, <<0, 4>>, <<1, 1>>})

Backslash == BoolImage(128, 76, {<<0, 0>>, <<2, 2>>})

Ell == BoolImage(64, 38, {<<0, 0>>, <<0, 1>>, <<1, 1>>, <<2, 1>>})

\* Every image has 0, 1, 2 or 4 ink pixels: m00 and the centroid are then exact
\* binary fractions, cv2's floating-point moments are exact, and a moment that
\* is 0 here is 0.0 there.

\* an image without pixels
Empty == BoolImage(0, 0, {})

\* the images a batch is made of
Images == {Blank, Dot, Slash, Backslash, Ell, Empty}

RECURSIVE SeqsUpTo(_, _)
\* the sequences over S of length at most n
SeqsUpTo(S, n) ==
    IF n = 0 THEN {<<>>}
    ELSE LET shorter == SeqsUpTo(S, n - 1)
         IN  shorter \cup {Append(q, e) : q \in shorter, e \in S}

NBinsSet == {1, 16}

\* the feature index each classifier decides on
Classifiers == {1, 8}

Scalers == {"scaler"}

\* the integer images handed to the feature functions: standardized batch
\* images, and images of other resolutions
FeatureInputs ==
    {standardize_shape(np_array_int16(i)) : i \in Images \ {Empty}}
    \cup {MkImage(2, 2, "int16", Ink({<<0, 0>>, <<1, 0>>, <<0, 1>>, <<1, 1>>})),
          MkImage(5, 3, "int16", Ink({<<1, 0>>})),
          MkImage(128, 76, "int16", Ink({<<0, 1>>, <<1, 1>>, <<2, 1>>, <<2, 0>>}))}

\* float maps handed to mean_exposure_hist: three pixels each
FloatMaps ==
    {MkImage(3, 1, "float", [q \in S |-> IF q[1] = 2 THEN 5 ELSE 10]) :
        S \in SUBSET {<<0, 0>>, <<1, 0>>, <<2, 0>>}}

HistBins == NBinsSet \cup {2, 3}

\* scale factors <<num, den>> (exact binary fractions) and reference sizes
Factors == {<<1, 4>>, <<1, 2>>, <<1, 1>>, <<3, 2>>}

Dims == {<<256, 153>>, <<64, 38>>, <<3, 5>>}

(***************************************************************************)
(* State.                                                                  *)
(***************************************************************************)
VARIABLES
    pc,        \* where predict stands: idle, loop, standardize, features,
               \* classify, map, returned, raised
    images,    \* predict's arguments
    clf,
    nbins,
    scaler,
    idx,       \* the number of images the for loop has consumed
    integer,   \* predict's locals
    im,
    X,
    y_pred,
    ret,       \* the list predict returned
    err,       \* the error that left predict, "" if none
    scaler_arg,\* what scaler.transform was last handed
    clf_arg,   \* what clf.predict was last handed
    trace,     \* the events of the call so far
    call       \* the last direct call of a Preprocessing / FeatureExtraction function

vars == <<pc, images, clf, nbins, scaler, idx, integer, im, X, y_pred, ret, err,
          scaler_arg, clf_arg, trace, call>>

predict_vars == <<pc, images, clf, nbins, scaler, idx, integer, im, X, y_pred, ret,
                  err, scaler_arg, clf_arg, trace>>

NoCall == [fn |-> "", args |-> <<>>, out |-> <<>>]

Event(ev, i) == [ev |-> ev, i |-> i]

Init ==
    /\ pc = "idle"
    /\ images = <<>>
    /\ clf = 1
    /\ nbins = 1
    /\ scaler = "scaler"
    /\ idx = 0
    /\ integer = ErrorImage
    /\ im = ErrorImage
    /\ X = None
    /\ y_pred = <<>>
    /\ ret = <<>>
    /\ err = ""
    /\ scaler_arg = None
    /\ clf_arg = None
    /\ trace = <<>>
    /\ call = NoCall

(***************************************************************************)
(* ComponentClassifier.predict(images, clf, nbins, scaler), statement by   *)
(* statement.                                                              *)
(***************************************************************************)
\* a loop that stops one image early
HasNextOffByOne == idx < Len(images) - 1

\* "for image in images": another image is left
HasNext == idx < Len(images)

\* a loop that runs through the batch from its end
NextImageReversed == images[Len(images) - idx]

\* "for image in images": the image of this iteration
NextImage == images[idx + 1]

\* the labels of the return statement: [map_label_to_str(label) for label in y_pred]
MapLabels(y) == [i \in 1..Len(y) |-> map_label_to_str(y[i])]

\* the call, and X = None
Predict ==
    /\ pc = "idle"
    /\ call = NoCall
    /\ \E imgs \in SeqsUpTo(Images, MaxImages), c \in Classifiers,
          nb \in NBinsSet, sc \in Scalers :
          /\ images' = imgs
          /\ clf' = c
          /\ nbins' = nb
          /\ scaler' = sc
    /\ X' = None
    /\ idx' = 0
    /\ pc' = "loop"
    /\ UNCHANGED <<integer, im, y_pred, ret, err, scaler_arg, clf_arg, trace, call>>

\* boolean = np.array(image); integer = np.array(boolean, dtype = 'int16')
Convert ==
    /\ pc = "loop"
    /\ HasNext
    /\ integer' = np_array_int16(NextImage)
    /\ trace' = Append(trace, Event("convert", idx + 1))
    /\ pc' = "standardize"
    /\ UNCHANGED <<images, clf, nbins, scaler, idx, im, X, y_pred, ret, err,
                   scaler_arg, clf_arg, call>>

\* im = Preprocessing.standardize_shape(integer); cv2's error leaves predict
Standardize ==
    /\ pc = "standardize"
    /\ im' = standardize_shape(integer)
    /\ trace' = Append(trace, Event("standardize", idx + 1))
    /\ IF IsError(im')
       THEN pc' = "raised" /\ err' = "cv2.error"
       ELSE pc' = "features" /\ err' = err
    /\ UNCHANGED <<images, clf, nbins, scaler, idx, integer, X, y_pred, ret,
                   scaler_arg, clf_arg, call>>

\* X = Utils.vStackMatrices(X, FeatureExtraction.moments_nbins(im, nbins))
Features ==
    /\ pc = "features"
    /\ X' = vStackMatrices(X, moments_nbins(im, nbins))
    /\ trace' = Append(trace, Event("append", idx + 1))
    /\ idx' = idx + 1
    /\ pc' = "loop"
    /\ UNCHANGED <<images, clf, nbins, scaler, integer, im, y_pred, ret, err,
                   scaler_arg, clf_arg, call>>

\* X = scaler.transform(X): on None it raises; on a matrix it returns the
\* scaled matrix or raises
Transform ==
    /\ pc = "loop"
    /\ ~HasNext
    /\ scaler_arg' = X
    /\ trace' = Append(trace, Event("transform", Len(X.rows)))
    /\ \/ /\ ~X.none
          /\ X' = scaler_transform(scaler, X)
          /\ pc' = "classify"
          /\ err' = err
       \/ /\ X' = X
          /\ pc' = "raised"
          /\ err' = IF X.none THEN "TypeError" ELSE "scaler.transform"
    /\ UNCHANGED <<images, clf, nbins, scaler, idx, integer, im, y_pred, ret,
                   clf_arg, call>>

\* y_pred = clf.predict(X): the class ids, or it raises
Classify ==
    /\ pc = "classify"
    /\ clf_arg' = X
    /\ trace' = Append(trace, Event("predict", Len(X.rows)))
    /\ \/ /\ y_pred' = clf_predict(clf, X)
          /\ pc' = "map"
          /\ err' = err
       \/ /\ y_pred' = y_pred
          /\ pc' = "raised"
          /\ err' = "clf.predict"
    /\ UNCHANGED <<images, clf, nbins, scaler, idx, integer, im, X, ret,
                   scaler_arg, call>>

\* return [Utils.map_label_to_str(label) for label in y_pred]
Return ==
    /\ pc = "map"
    /\ ret' = MapLabels(y_pred)
    /\ trace' = Append(trace, Event("map", Len(y_pred)))
    /\ pc' = "returned"
    /\ UNCHANGED <<images, clf, nbins, scaler, idx, integer, im, X, y_pred, err,
                   scaler_arg, clf_arg, call>>

(***************************************************************************)
(* Direct calls of the static methods, each on a fresh interpreter state   *)
(* (the methods are static and keep no state between calls).               *)
(***************************************************************************)
CallScaleImage ==
    /\ pc = "idle"
    /\ call = NoCall
    /\ \E img \in Images, f \in Factors, d \in Dims :
          call' = [fn |-> "scale_image", args |-> <<np_array_int16(img), f, d>>,
                   out |-> scale_image(np_array_int16(img), f, d)]
    /\ UNCHANGED predict_vars

CallStandardizeShape ==
    /\ pc = "idle"
    /\ call = NoCall
    /\ \E img \in Images :
          call' = [fn |-> "standardize_shape", args |-> <<np_array_int16(img)>>,
                   out |-> standardize_shape(np_array_int16(img))]
    /\ UNCHANGED predict_vars

CallMeanExposureHist ==
    /\ pc = "idle"
    /\ call = NoCall
    /\ \E nb \in HistBins, maps \in SeqsUpTo(FloatMaps, MaxHistImages) \ {<<>>} :
          call' = [fn |-> "mean_exposure_hist", args |-> <<nb, maps>>,
                   out |-> mean_exposure_hist(nb, maps)]
    /\ UNCHANGED predict_vars

CallMomentsHu ==
    /\ pc = "idle"
    /\ call = NoCall
    /\ \E img \in FeatureInputs :
          call' = [fn |-> "moments_hu", args |-> <<img>>, out |-> moments_hu(img)]
    /\ UNCHANGED predict_vars

CallMomentsNbins ==
    /\ pc = "idle"
    /\ call = NoCall
    /\ \E img \in FeatureInputs, nb \in HistBins :
          call' = [fn |-> "moments_nbins", args |-> <<img, nb>>,
                   out |-> moments_nbins(img, nb)]
    /\ UNCHANGED predict_vars

Next ==
    \/ Predict
    \/ Convert
    \/ Standardize
    \/ Features
    \/ Transform
    \/ Classify
    \/ Return
    \/ CallScaleImage
    \/ CallStandardizeShape
    \/ CallMeanExposureHist
    \/ CallMomentsHu
    \/ CallMomentsNbins

Spec == Init /\ [][Next]_vars

(***************************************************************************)
(* Properties.                                                             *)
(***************************************************************************)
\* the positions of the trace holding event ev
EventsOf(ev) == {k \in 1..Len(trace) : trace[k].ev = ev}

\* the feature vector of one batch image, computed on its own
FeatureRow(image, nb) == moments_nbins(standardize_shape(np_array_int16(image)), nb)

\* the label a feature row gets on its own from the scaler and the classifier
LabelAlone(row) == map_label_to_str(ClassOf(clf, ScaleRow(scaler, row)))

\* the last event of the call is ev
LastEvent(ev) == trace # <<>> /\ trace[Len(trace)].ev = ev

\* C1: the matrix handed to scaler.transform has one row per image, row i being
\* the feature vector of image i, and a successful predict returns one label
\* per image, label i being the label of image i (so a permuted batch gets the
\* same labels, permuted the same way).
C1_LabelsFollowInputOrder ==
    /\ (LastEvent("transform") /\ ~scaler_arg.none) =>
          /\ Len(scaler_arg.rows) = Len(images)
          /\ \A i \in 1..Len(images) :
                scaler_arg.rows[i] = FeatureRow(images[i], nbins)
    /\ pc = "returned" =>
          /\ Len(ret) = Len(images)
          /\ \A i \in 1..Len(images) :
                \A row \in {FeatureRow(images[i], nbins)} : ret[i] = LabelAlone(row)

\* a batch of two images with different labels has been classified
C1_Witness ==
    /\ pc = "returned"
    /\ Len(images) = 2
    /\ ret[1] # ret[2]

\* C2: predict on an empty batch returns the empty list: it does not fail and
\* does not hand the never-built matrix (None) to scaler.transform.
C2_EmptyBatchYieldsEmptyList ==
    (pc # "idle" /\ images = <<>>) =>
        /\ pc # "raised"
        /\ ~(EventsOf("transform") # {} /\ scaler_arg.none)
        /\ pc = "returned" => ret = <<>>

\* C3: moments_nbins returns 7 + nbins entries, the 7 log-transformed Hu
\* moments first and the nbins entries of the Gabor histogram after them, for
\* an image of any resolution; every row predict stacks has width 7 + nbins.
C3_FeatureVectorLayout ==
    /\ call.fn = "moments_nbins" =>
          /\ Len(call.out) = 7 + call.args[2]
          /\ SubSeq(call.out, 1, 7) = moments_hu(call.args[1])
          /\ \A hist \in {mean_exposure_hist_from_gabor(call.args[1], call.args[2])} :
                \A j \in 1..call.args[2] : call.out[7 + j] = Num(hist[j])
    /\ \A i \in 1..Len(X.rows) : Len(X.rows[i]) = 7 + nbins

\* moments_nbins has been applied to a 128 x 76 image with 3 bins
C3_Witness ==
    /\ call.fn = "moments_nbins"
    /\ call.args[1].width = 128
    /\ call.args[2] = 3
    /\ Len(call.out) = 10

\* C4: scale_image returns an image of width int(factor * reference width)
\* and height int(factor * reference height), whatever the size of its input;
\* standardize_shape always returns a 64 x 38 image.
C4_ScaledShape ==
    /\ (call.fn = "scale_image" /\ ~IsError(call.out)) =>
          LET num == call.args[2][1]
              den == call.args[2][2]
              dim == call.args[3]
          IN  /\ den * call.out.width <= num * dim[1]
              /\ num * dim[1] < den * (call.out.width + 1)
              /\ den * call.out.height <= num * dim[2]
              /\ num * dim[2] < den * (call.out.height + 1)
    /\ (call.fn = "standardize_shape" /\ ~IsError(call.out)) =>
          call.out.width = 64 /\ call.out.height = 38
    /\ pc = "features" => im.width = 64 /\ im.height = 38

\* a 128 x 76 image has been standardized
C4_Witness ==
    /\ call.fn = "standardize_shape"
    /\ call.args[1].width = 128
    /\ call.out.width = 64
    /\ call.out.height = 38

\* C5: moments_hu never returns NaN or an infinity, and none reaches the
\* matrix handed to scaler.transform.
C5_HuMomentsFinite ==
    /\ call.fn = "moments_hu" => \A i \in 1..Len(call.out) : IsFinite(call.out[i])
    /\ \A i \in 1..Len(scaler_arg.rows) :
          \A j \in 1..Len(scaler_arg.rows[i]) : IsFinite(scaler_arg.rows[i][j])

\* C6: mean_exposure_hist over k images returns nbins entries, entry j being
\* the exact mean of the images' counts of bin j (k times the entry is their
\* sum).
C6_ExactMeanHistogram ==
    call.fn = "mean_exposure_hist" =>
        /\ Len(call.out) = call.args[1]
        /\ \A j \in 1..call.args[1] :
              call.out[j] * Len(call.args[2]) =
                  SumSeq([i \in 1..Len(call.args[2]) |->
                             exposure_histogram(call.args[2][i], call.args[1])[j]])

\* C7: predict ends in one of two ways: it returns one label per image, or it
\* fails with the error of the step that raised and without any label; no
\* capability is called a second time.
C7_AllOrNothing ==
    /\ pc = "returned" => Len(ret) = Len(images) /\ err = ""
    /\ pc = "raised" =>
          /\ ret = <<>>
          /\ \/ LastEvent("standardize") /\ err = "cv2.error"
             \/ LastEvent("transform") /\ err \in {"TypeError", "scaler.transform"}
             \/ LastEvent("predict") /\ err = "clf.predict"
    /\ Cardinality(EventsOf("transform")) <= 1
    /\ Cardinality(EventsOf("predict")) <= 1
    /\ pc \notin {"returned", "raised"} => ret = <<>> /\ err = ""

\* clf.predict has raised on a batch of two images
C7_Witness ==
    /\ pc = "raised"
    /\ err = "clf.predict"
    /\ Len(images) = 2
    /\ ret = <<>>

\* C8: with nbins = 16 the feature vector has 39 entries.
C8_Length39 ==
    /\ (call.fn = "moments_nbins" /\ call.args[2] = 16) => Len(call.out) = 39
    /\ nbins = 16 => \A i \in 1..Len(X.rows) : Len(X.rows[i]) = 39

\* C8, amended: with nbins = 16 the feature vector has 23 = 7 + 16 entries.
C8_Length23 ==
    /\ (call.fn = "moments_nbins" /\ call.args[2] = 16) => Len(call.out) = 23
    /\ nbins = 16 => \A i \in 1..Len(X.rows) : Len(X.rows[i]) = 23

\* moments_nbins has been applied with 16 bins to an image that is not 64 x 38
C8_Witness ==
    /\ call.fn = "moments_nbins"
    /\ call.args[2] = 16
    /\ call.args[1].width # 64
    /\ Len(call.out) = 23

\* the events of a complete call on n images
ExpectedTrace(n) ==
    [k \in 1..(3 * n + 3) |->
        IF k <= 3 * n
        THEN Event(<<"convert", "standardize", "append">>[((k - 1) % 3) + 1],
                   ((k - 1) \div 3) + 1)
        ELSE Event(<<"transform", "predict", "map">>[k - 3 * n], n)]

\* C10: on n >= 1 images the events of predict come in this order: convert,
\* standardize, append for image 1, ..., for image n, then scaler.transform
\* once on the n-row matrix, then clf.predict once on what scaler.transform
\* returned, then the mapping of the ids to their names.
C10_EventOrder ==
    (pc # "idle" /\ Len(images) >= 1) =>
        /\ Len(trace) <= 3 * Len(images) + 3
        /\ trace = SubSeq(ExpectedTrace(Len(images)), 1, Len(trace))
        /\ LastEvent("transform") =>
              ~scaler_arg.none /\ Len(scaler_arg.rows) = Len(images)
        /\ LastEvent("predict") => clf_arg = scaler_transform(scaler, scaler_arg)
        /\ pc = "returned" =>
              /\ y_pred = clf_predict(clf, clf_arg)
              /\ ret = [i \in 1..Len(y_pred) |-> LabelNames[y_pred[i] + 1]]

\* a call on two images has returned
C10_Witness ==
    /\ pc = "returned"
    /\ Len(images) = 2
    /\ Len(trace) = 9

====
